---------------------------- MODULE Spec2Model ----------------------------
(***************************************************************************)
(* Model of the interactive grid editors of bmstu-labs-utility:            *)
(*   utility/array_input.py   input_array  and its typed wrappers          *)
(*   utility/matrix_input.py  input_matrix and its typed wrappers          *)
(*                                                                         *)
(* A text is a sequence of one-character strings.  Python indices are kept *)
(* 0-based: the array is a function on 0..size-1, the matrix a function on *)
(* 0..rows-1 of functions on 0..cols-1.  One step of the model is one pass *)
(* of the editor's `while True` loop: the keys it reads with getch() and   *)
(* everything the loop body does with them.                                *)
(***************************************************************************)
EXTENDS Integers, Sequences, FiniteSets, TLC

(***************************************************************************)
(* Bounds of the model.                                                    *)
(***************************************************************************)
\* largest array the array editor is opened with
MaxSize == 3
\* largest matrix the matrix editor is opened with: rows, columns, cells
MaxRows == 2
MaxCols == 2
MaxCells == 4

(***************************************************************************)
(* Texts.                                                                  *)
(***************************************************************************)
Digits == {"0", "1", "2", "3", "4", "5", "6", "7", "8", "9"}

DigitVal(c) ==
    CASE c = "0" -> 0 [] c = "1" -> 1 [] c = "2" -> 2 [] c = "3" -> 3
      [] c = "4" -> 4 [] c = "5" -> 5 [] c = "6" -> 6 [] c = "7" -> 7
      [] c = "8" -> 8 [] c = "9" -> 9

DigitChar(d) ==
    CASE d = 0 -> "0" [] d = 1 -> "1" [] d = 2 -> "2" [] d = 3 -> "3"
      [] d = 4 -> "4" [] d = 5 -> "5" [] d = 6 -> "6" [] d = 7 -> "7"
      [] d = 8 -> "8" [] d = 9 -> "9"

\* n copies of c
Rep(c, n) == [i \in 1..n |-> c]

\* s[:-1]
DropLast(s) == SubSeq(s, 1, Len(s) - 1)

\* s += c
AppendCharMutant(s, c) == <<c>> \o s
AppendChar(s, c) == Append(s, c)

\* position of the first c in s, 0 when there is none
RECURSIVE IndexOf(_, _, _)
IndexOf(s, c, i) ==
    IF i > Len(s) THEN 0
    ELSE IF s[i] = c THEN i
    ELSE IndexOf(s, c, i + 1)

\* s.rstrip(c)
RECURSIVE RStrip(_, _)
RStrip(s, c) ==
    IF s # <<>> /\ s[Len(s)] = c THEN RStrip(DropLast(s), c) ELSE s

\* s without its leading c's
RECURSIVE LStrip(_, _)
LStrip(s, c) ==
    IF s # <<>> /\ Head(s) = c THEN LStrip(Tail(s), c) ELSE s

AllDigits(s) == \A i \in 1..Len(s) : s[i] \in Digits

\* value of a text of decimal digits
RECURSIVE NatOf(_)
NatOf(s) ==
    IF s = <<>> THEN 0 ELSE 10 * NatOf(DropLast(s)) + DigitVal(s[Len(s)])

\* str(n) for a natural number n
RECURSIVE StrNat(_)
StrNat(n) ==
    IF n < 10 THEN <<DigitChar(n)>>
    ELSE Append(StrNat(n \div 10), DigitChar(n % 10))

(***************************************************************************)
(* Python's float, int and str on texts.  A float is kept as its decimal   *)
(* value: kind "fin" with significant digits digs (no leading and no       *)
(* trailing zero) and a position pt of the decimal point, the value being  *)
(* 0.digs * 10^pt (zero has digs = <<>>), or kind "inf" or "nan".  This is *)
(* what the double holds, and what repr() prints back, for texts of up to  *)
(* 15 significant digits in the normal range of a double; the texts the    *)
(* model types are of that sort.  The letters are lower case, no blanks    *)
(* and no underscores: the other spellings float() accepts are not typed.  *)
(***************************************************************************)
NoExc == "none"

Num(k, n, d, p) == [kind |-> k, neg |-> n, digs |-> d, pt |-> p]

Raise(e) == [exc |-> e, num |-> Num("nan", FALSE, <<>>, 0), text |-> <<>>]

\* 0.a >= 0.b for two digit texts
RECURSIVE DigsGE(_, _)
DigsGE(a, b) ==
    IF b = <<>> THEN TRUE
    ELSE IF a = <<>> THEN FALSE
    ELSE IF DigitVal(Head(a)) # DigitVal(Head(b))
         THEN DigitVal(Head(a)) > DigitVal(Head(b))
    ELSE DigsGE(Tail(a), Tail(b))

\* the digits of the largest finite double, 1.7976931348623157e308, rounded up
MaxDoubleDigs ==
    <<"1", "7", "9", "7", "6", "9", "3", "1", "3", "4", "8", "6", "2", "3", "1", "5", "8">>

\* a text without its sign
Unsigned(value) ==
    IF value # <<>> /\ Head(value) \in {"+", "-"} THEN Tail(value) ELSE value

IsNegative(value) == value # <<>> /\ Head(value) = "-"

\* the part of a text before the first c (all of it when there is no c)
BeforeChar(s, c) ==
    LET i == IndexOf(s, c, 1) IN IF i = 0 THEN s ELSE SubSeq(s, 1, i - 1)

\* the part of a text after the first c (nothing when there is no c)
AfterChar(s, c) ==
    LET i == IndexOf(s, c, 1) IN IF i = 0 THEN <<>> ELSE SubSeq(s, i + 1, Len(s))

HasChar(s, c) == IndexOf(s, c, 1) # 0

\* digits, optionally with one point, at least one digit in all
IsMantissa(mant) ==
    /\ AllDigits(BeforeChar(mant, "."))
    /\ AllDigits(AfterChar(mant, "."))
    /\ Len(BeforeChar(mant, ".")) + Len(AfterChar(mant, ".")) >= 1

\* an optional sign and at least one digit
IsExponent(exps) == Unsigned(exps) # <<>> /\ AllDigits(Unsigned(exps))

ExponentVal(exps) ==
    IF IsNegative(exps) THEN 0 - NatOf(Unsigned(exps)) ELSE NatOf(Unsigned(exps))

\* the float with the digits all (no leading zero) and the point after pt of them
Finite(neg, all, pt) ==
    IF RStrip(all, "0") = <<>> \/ pt <= -324
    THEN Num("fin", neg, <<>>, 0)
    ELSE IF pt >= 310 \/ (pt = 309 /\ DigsGE(all, MaxDoubleDigs))
    THEN Num("inf", neg, <<>>, 0)
    ELSE Num("fin", neg, RStrip(all, "0"), pt)

\* the float of a well-formed decimal text: mantissa ip.fp, exponent ex
Decimal(neg, ip, fp, ex) ==
    Finite(neg, LStrip(ip \o fp, "0"), Len(LStrip(ip \o fp, "0")) + ex - Len(fp))

\* float(body) for a text without sign
PyFloatBody(neg, body) ==
    IF body \in {<<"i", "n", "f">>, <<"i", "n", "f", "i", "n", "i", "t", "y">>}
    THEN [exc |-> NoExc, num |-> Num("inf", neg, <<>>, 0)]
    ELSE IF body = <<"n", "a", "n">>
    THEN [exc |-> NoExc, num |-> Num("nan", neg, <<>>, 0)]
    ELSE IF /\ IsMantissa(BeforeChar(body, "e"))
            /\ HasChar(body, "e") => IsExponent(AfterChar(body, "e"))
    THEN [exc |-> NoExc,
          num |-> Decimal(neg,
                          BeforeChar(BeforeChar(body, "e"), "."),
                          AfterChar(BeforeChar(body, "e"), "."),
                          IF HasChar(body, "e")
                          THEN ExponentVal(AfterChar(body, "e")) ELSE 0)]
    ELSE [exc |-> "ValueError", num |-> Num("nan", FALSE, <<>>, 0)]

\* float(value)
PyFloat(value) == PyFloatBody(IsNegative(value), Unsigned(value))

\* f"{num}" for a float num
PyRepr(num) ==
    LET sign == IF num.neg THEN <<"-">> ELSE <<>>
        n    == Len(num.digs)
        x    == num.pt - 1
        ax   == IF x < 0 THEN 0 - x ELSE x
    IN  IF num.kind = "nan" THEN <<"n", "a", "n">>
        ELSE IF num.kind = "inf" THEN sign \o <<"i", "n", "f">>
        ELSE IF n = 0 THEN sign \o <<"0", ".", "0">>
        ELSE IF x >= -4 /\ x < 16
        THEN IF num.pt <= 0
             THEN sign \o <<"0", ".">> \o Rep("0", 0 - num.pt) \o num.digs
             ELSE IF num.pt >= n
             THEN sign \o num.digs \o Rep("0", num.pt - n) \o <<".", "0">>
             ELSE sign \o SubSeq(num.digs, 1, num.pt) \o <<".">>
                       \o SubSeq(num.digs, num.pt + 1, n)
        ELSE sign \o <<num.digs[1]>>
                  \o (IF n > 1 THEN <<".">> \o SubSeq(num.digs, 2, n) ELSE <<>>)
                  \o <<"e", IF x < 0 THEN "-" ELSE "+">>
                  \o (IF ax < 10 THEN <<"0">> ELSE <<>>) \o StrNat(ax)

\* str(int(num)) for a float num: truncation toward zero
PyInt(num) ==
    LET n == Len(num.digs)
    IN  IF num.kind = "nan" THEN Raise("ValueError")
        ELSE IF num.kind = "inf" THEN Raise("OverflowError")
        ELSE IF n = 0 \/ num.pt <= 0 THEN [Raise(NoExc) EXCEPT !.text = <<"0">>]
        ELSE [Raise(NoExc) EXCEPT !.text =
                 (IF num.neg THEN <<"-">> ELSE <<>>)
                 \o (IF num.pt >= n THEN num.digs \o Rep("0", num.pt - n)
                     ELSE SubSeq(num.digs, 1, num.pt))]

\* int(float(value))
PyIntFloat(value) ==
    LET f == PyFloat(value)
    IN  IF f.exc # NoExc THEN Raise(f.exc) ELSE PyInt(f.num)

(***************************************************************************)
(* format_number of the two files.  `except ValueError` returns the text   *)
(* as it came; any other exception leaves the function.                    *)
(***************************************************************************)
matrix_format_number(value, as_int_, as_symbol_) ==
    IF as_symbol_ THEN [exc |-> NoExc, text |-> value]
    ELSE IF as_int_
    THEN LET i == PyIntFloat(value)
         IN  IF i.exc = "ValueError" THEN [exc |-> NoExc, text |-> value]
             ELSE [exc |-> i.exc, text |-> i.text]
    ELSE LET f == PyFloat(value)
             s == PyRepr(f.num)
         IN  IF f.exc = "ValueError" THEN [exc |-> NoExc, text |-> value]
             ELSE IF IndexOf(s, ".", 1) # 0
             THEN [exc |-> NoExc, text |-> RStrip(RStrip(s, "0"), ".")]
             ELSE [exc |-> NoExc, text |-> s]

array_format_number(value, as_int_) ==
    IF as_int_
    THEN LET i == PyIntFloat(value)
         IN  IF i.exc = "ValueError" THEN [exc |-> NoExc, text |-> value]
             ELSE [exc |-> i.exc, text |-> i.text]
    ELSE LET f == PyFloat(value)
             s == PyRepr(f.num)
         IN  IF f.exc = "ValueError" THEN [exc |-> NoExc, text |-> value]
             ELSE IF IndexOf(s, ".", 1) # 0
             THEN [exc |-> NoExc, text |-> RStrip(RStrip(s, "0"), ".")]
             ELSE [exc |-> NoExc, text |-> s]

(***************************************************************************)
(* Validators.  A validator returns (is_valid, error); here also the       *)
(* exception that leaves it, if any.  The messages are the source's        *)
(* Russian messages in English.                                            *)
(***************************************************************************)
\* "Введите корректное число"
MsgNumber == "enter a valid number"
\* "Введите один символ"
MsgSymbol == "enter a single character"
\* "Значение должно быть от -100 до 100" / "Число должно быть от -100 до 100"
MsgRange == "value must be between -100 and 100"

Verdict(e, ok, msg) == [exc |-> e, is_valid |-> ok, error |-> msg]

array_default_validator(value, as_int_) ==
    LET e == IF as_int_ THEN PyIntFloat(value).exc ELSE PyFloat(value).exc
    IN  IF e = NoExc THEN Verdict(NoExc, TRUE, "")
        ELSE IF e = "ValueError" THEN Verdict(NoExc, FALSE, MsgNumber)
        ELSE Verdict(e, FALSE, "")

\* as matrix_default_validator, but a symbol is any non-empty text
matrix_default_validatorMutant(value, as_int_, as_symbol_) ==
    IF as_symbol_
    THEN IF Len(value) >= 1 THEN Verdict(NoExc, TRUE, "")
         ELSE Verdict(NoExc, FALSE, MsgSymbol)
    ELSE LET e == IF as_int_ THEN PyIntFloat(value).exc ELSE PyFloat(value).exc
         IN  IF e = NoExc THEN Verdict(NoExc, TRUE, "")
             ELSE IF e = "ValueError" THEN Verdict(NoExc, FALSE, MsgNumber)
             ELSE Verdict(e, FALSE, "")
matrix_default_validator(value, as_int_, as_symbol_) ==
    IF as_symbol_
    THEN IF Len(value) = 1 THEN Verdict(NoExc, TRUE, "")
         ELSE Verdict(NoExc, FALSE, MsgSymbol)
    ELSE LET e == IF as_int_ THEN PyIntFloat(value).exc ELSE PyFloat(value).exc
         IN  IF e = NoExc THEN Verdict(NoExc, TRUE, "")
             ELSE IF e = "ValueError" THEN Verdict(NoExc, FALSE, MsgNumber)
             ELSE Verdict(e, FALSE, "")

\* -100 <= num <= 100
InRange(num) ==
    /\ num.kind = "fin"
    /\ \/ num.digs = <<>>
       \/ num.pt <= 2
       \/ num.pt = 3 /\ num.digs = <<"1">>

\* the range validator of the two example programs
custom_validator(value) ==
    LET f == PyFloat(value)
    IN  IF f.exc = "ValueError" THEN Verdict(NoExc, FALSE, MsgNumber)
        ELSE IF InRange(f.num) THEN Verdict(NoExc, TRUE, "")
        ELSE Verdict(NoExc, FALSE, MsgRange)

\* a caller's validator that accepts every text
accept_all(value) == Verdict(NoExc, TRUE, "")

\* the values of the `validator` argument the model passes
Validators == {"None", "custom_validator", "accept_all"}

(***************************************************************************)
(* Entry points and what the user types.                                   *)
(***************************************************************************)
\* the two editors: input_array and input_matrix
Editors == {"array", "matrix"}

\* the texts the user types into a cell: these, and every beginning of them
TypedTexts == {<<"1", ".">>, <<"i", "n", "f">>}

Typable(s) ==
    \E t \in TypedTexts : Len(s) <= Len(t) /\ SubSeq(t, 1, Len(s)) = s

\* printable keys
Chars == {"1", ".", "i", "n", "f"}
\* keys that are neither printable nor handled
OtherKeys == {"TAB"}
\* what follows ESC: "[" opens an arrow sequence
NextChars == {"[", "ESC"}
\* the last byte of a sequence ESC [ : up, down, right, left, and another one
Directions == {"A", "B", "C", "D", "Z"}

None == <<>>

VARIABLES
    editor,         \* which of the two editors runs
    as_int,         \* its arguments
    as_symbol,
    validator,
    size,
    rows,
    cols,
    array,          \* input_array: the cells
    current_pos,
    matrix,         \* input_matrix: the cells
    current_row,
    current_col,
    current_value,  \* the edit buffer
    error_message,
    status,         \* "Editing" inside the loop, else how the loop was left
    result,         \* what input_array / input_matrix returned or raised
    keys,           \* the keys getch() returned in the last pass of the loop
    validated       \* the texts the validator was called with in that pass

vars == <<editor, as_int, as_symbol, validator, size, rows, cols, array, current_pos,
          matrix, current_row, current_col, current_value, error_message, status,
          result, keys, validated>>

config == <<editor, as_int, as_symbol, validator, size, rows, cols>>
array_vars == <<array, current_pos>>
matrix_vars == <<matrix, current_row, current_col>>

Init ==
    /\ editor \in Editors
    /\ validator \in Validators
    /\ as_int \in BOOLEAN
    /\ as_symbol \in BOOLEAN
    /\ ~(as_int /\ as_symbol)
    /\ editor = "array" => ~as_symbol
    /\ as_symbol => validator = "None"
    /\ size \in 0..MaxSize
    /\ rows \in 0..MaxRows
    /\ cols \in 0..MaxCols
    /\ IF editor = "array"
       THEN size >= 1 /\ rows = 0 /\ cols = 0
       ELSE size = 0 /\ rows >= 1 /\ cols >= 1 /\ rows * cols <= MaxCells
    /\ array = [i \in 0..size - 1 |-> <<>>]
    /\ current_pos = 0
    /\ matrix = [i \in 0..rows - 1 |-> [j \in 0..cols - 1 |-> <<>>]]
    /\ current_row = 0
    /\ current_col = 0
    /\ current_value = <<>>
    /\ error_message = ""
    /\ status = "Editing"
    /\ result = "pending"
    /\ keys = <<>>
    /\ validated = <<>>

\* validator(value): the default validator stands in when the argument is None
array_validator(value) ==
    IF validator = "None" THEN array_default_validator(value, as_int)
    ELSE IF validator = "custom_validator" THEN custom_validator(value)
    ELSE accept_all(value)

matrix_validator(value) ==
    IF validator = "None" THEN matrix_default_validator(value, as_int, as_symbol)
    ELSE IF validator = "custom_validator" THEN custom_validator(value)
    ELSE accept_all(value)

(***************************************************************************)
(* input_array: one pass of the loop per action.                           *)
(***************************************************************************)
\* all(cell != '' for cell in array)
ArrayCompleteMutant(a) == \E i \in 0..size - 1 : a[i] # <<>>
ArrayComplete(a) == \A i \in 0..size - 1 : a[i] # <<>>

\* the end of the loop body: break and return the array once it is complete
ArrayLoopEnd(a) ==
    /\ status' = IF ArrayComplete(a) THEN "Completed" ELSE "Editing"
    /\ result' = IF ArrayComplete(a) THEN "grid" ELSE "pending"

\* an exception that nothing catches leaves the editor
Fault(e) ==
    /\ status' = "Fault"
    /\ result' = e
    /\ UNCHANGED <<array_vars, matrix_vars, current_value, error_message>>

\* the cursor after a commit or after Enter on an empty buffer
ArrayAdvanceWraps(pos) == IF pos < size - 1 THEN pos + 1 ELSE 0
ArrayAdvance(pos) == IF pos < size - 1 THEN pos + 1 ELSE pos

\* Enter on an empty buffer: one cell forward, nothing validated
ArrayEmptyEnterCommits ==
    /\ validated' = <<>>
    /\ array' = [array EXCEPT ![current_pos] = current_value]
    /\ current_pos' = ArrayAdvance(current_pos)
    /\ UNCHANGED <<current_value, error_message>>
ArrayEmptyEnterMutant ==
    /\ validated' = <<current_value>>
    /\ current_pos' = ArrayAdvance(current_pos)
    /\ error_message' = array_validator(current_value).error
    /\ UNCHANGED <<array, current_value>>
ArrayEmptyEnter ==
    /\ validated' = <<>>
    /\ current_pos' = ArrayAdvance(current_pos)
    /\ UNCHANGED <<array, current_value, error_message>>

ArrayEnter(k) ==
    /\ editor = "array" /\ status = "Editing"
    /\ k \in {"CR", "LF"}
    /\ keys' = <<k>>
    /\ UNCHANGED <<config, matrix_vars>>
    /\ IF current_value # <<>>
       THEN LET v == array_validator(current_value)
                f == array_format_number(current_value, as_int)
            IN  /\ validated' = <<current_value>>
                /\ IF v.exc # NoExc THEN Fault(v.exc)
                   ELSE IF ~v.is_valid
                   THEN /\ error_message' = v.error
                        /\ UNCHANGED <<array_vars, current_value>>
                        /\ ArrayLoopEnd(array)
                   ELSE IF f.exc # NoExc THEN Fault(f.exc)
                   ELSE /\ array' = [array EXCEPT ![current_pos] = f.text]
                        /\ current_value' = <<>>
                        /\ current_pos' = ArrayAdvance(current_pos)
                        /\ error_message' = ""
                        /\ ArrayLoopEnd(array')
       ELSE /\ ArrayEmptyEnter
            /\ ArrayLoopEnd(array)

\* as ArrayBackspace, but the error message is left as it is
ArrayBackspaceMutant ==
    /\ editor = "array" /\ status = "Editing"
    /\ keys' = <<"DEL">>
    /\ validated' = <<>>
    /\ UNCHANGED <<config, matrix_vars, array_vars, error_message>>
    /\ IF current_value # <<>>
       THEN current_value' = DropLast(current_value)
       ELSE UNCHANGED current_value
    /\ ArrayLoopEnd(array)
ArrayBackspace ==
    /\ editor = "array" /\ status = "Editing"
    /\ keys' = <<"DEL">>
    /\ validated' = <<>>
    /\ UNCHANGED <<config, matrix_vars, array_vars>>
    /\ IF current_value # <<>>
       THEN /\ current_value' = DropLast(current_value)
            /\ error_message' = ""
       ELSE UNCHANGED <<current_value, error_message>>
    /\ ArrayLoopEnd(array)

\* an arrow key that is not blocked: the cursor moves, buffer and error are cleared
ArrayMoveMutant(pos) ==
    /\ current_pos' = pos
    /\ UNCHANGED <<current_value, error_message>>
ArrayMove(pos) ==
    /\ current_pos' = pos
    /\ current_value' = <<>>
    /\ error_message' = ""

\* ESC and a key other than "[": return None
CancelMutant ==
    /\ status' = "Cancelled"
    /\ result' = "grid"
    /\ UNCHANGED <<array_vars, matrix_vars, current_value, error_message>>
Cancel ==
    /\ status' = "Cancelled"
    /\ result' = "None"
    /\ UNCHANGED <<array_vars, matrix_vars, current_value, error_message>>

\* as ArrayEscape, but ESC [ and a byte that is no arrow of this editor cancels
ArrayEscapeMutant(next_char, direction) ==
    /\ editor = "array" /\ status = "Editing"
    /\ next_char \in NextChars /\ direction \in Directions
    /\ validated' = <<>>
    /\ UNCHANGED <<config, matrix_vars, array>>
    /\ IF next_char = "[" /\ direction \in {"C", "D"}
       THEN /\ keys' = <<"ESC", next_char, direction>>
            /\ IF direction = "D" /\ current_pos > 0
               THEN ArrayMove(current_pos - 1)
               ELSE IF direction = "C" /\ current_pos < size - 1
               THEN ArrayMove(current_pos + 1)
               ELSE UNCHANGED <<current_pos, current_value, error_message>>
            /\ ArrayLoopEnd(array)
       ELSE /\ keys' = IF next_char = "[" THEN <<"ESC", next_char, direction>>
                       ELSE <<"ESC", next_char>>
            /\ Cancel
ArrayEscape(next_char, direction) ==
    /\ editor = "array" /\ status = "Editing"
    /\ next_char \in NextChars /\ direction \in Directions
    /\ validated' = <<>>
    /\ UNCHANGED <<config, matrix_vars, array>>
    /\ IF next_char = "["
       THEN /\ keys' = <<"ESC", next_char, direction>>
            /\ IF direction = "D" /\ current_pos > 0
               THEN ArrayMove(current_pos - 1)
               ELSE IF direction = "C" /\ current_pos < size - 1
               THEN ArrayMove(current_pos + 1)
               ELSE UNCHANGED <<current_pos, current_value, error_message>>
            /\ ArrayLoopEnd(array)
       ELSE /\ keys' = <<"ESC", next_char>>
            /\ Cancel

ArrayPrintable(c) ==
    /\ editor = "array" /\ status = "Editing"
    /\ c \in Chars /\ Typable(Append(current_value, c))
    /\ keys' = <<c>>
    /\ validated' = <<>>
    /\ current_value' = AppendChar(current_value, c)
    /\ error_message' = ""
    /\ UNCHANGED <<config, matrix_vars, array_vars>>
    /\ ArrayLoopEnd(array)

ArrayOther(k) ==
    /\ editor = "array" /\ status = "Editing"
    /\ k \in OtherKeys
    /\ keys' = <<k>>
    /\ validated' = <<>>
    /\ UNCHANGED <<config, matrix_vars, array_vars, current_value, error_message>>
    /\ ArrayLoopEnd(array)

(***************************************************************************)
(* input_matrix.                                                           *)
(***************************************************************************)
\* (i, j) comes before (k, l) in row-major order
Before(a, b) == a[1] < b[1] \/ (a[1] = b[1] /\ a[2] < b[2])

\* the first cell of a set in row-major order: the one a nested loop meets first
FirstCell(S) == CHOOSE a \in S : \A b \in S : a = b \/ Before(a, b)

is_matrix_complete(m) ==
    \A i \in 0..rows - 1 : \A j \in 0..cols - 1 : m[i][j] # <<>>

\* as find_next_empty, but the rest of the current row is not searched
find_next_emptySkipsRow(m, row, col) ==
    LET met == {a \in (row + 1..rows - 1) \X (0..cols - 1) : m[a[1]][a[2]] = <<>>}
    IN  IF met = {} THEN None ELSE FirstCell(met)
find_next_empty(m, row, col) ==
    LET met == {a \in (row..rows - 1) \X (0..cols - 1) :
                   /\ a[2] >= (IF a[1] = row THEN col + 1 ELSE 0)
                   /\ m[a[1]][a[2]] = <<>>}
    IN  IF met = {} THEN None ELSE FirstCell(met)

find_prev_emptyMutant(m, row, col) ==
    LET met == {a \in (0..row - 1) \X (0..cols - 1) : m[a[1]][a[2]] = <<>>}
    IN  IF met = {} THEN None ELSE FirstCell(met)
find_prev_empty(m, row, col) ==
    LET met == {a \in (0..row) \X (0..cols - 1) :
                   /\ ~(a[1] = row /\ a[2] >= col)
                   /\ m[a[1]][a[2]] = <<>>}
    IN  IF met = {} THEN None ELSE FirstCell(met)

\* the format check that comes before the validator
MatrixTest(value) ==
    IF as_int THEN PyIntFloat(value).exc
    ELSE IF as_symbol THEN NoExc
    ELSE PyFloat(value).exc

\* Enter on an empty buffer: nothing happens
MatrixEmptyEnterMutant ==
    /\ validated' = <<>>
    /\ current_col' = IF current_col < cols - 1 THEN current_col + 1 ELSE 0
    /\ current_row' = IF current_col < cols - 1 THEN current_row
                      ELSE IF current_row < rows - 1 THEN current_row + 1 ELSE 0
    /\ UNCHANGED <<matrix, current_value, error_message, status, result>>
MatrixEmptyEnter ==
    /\ validated' = <<>>
    /\ UNCHANGED <<matrix_vars, current_value, error_message, status, result>>

MatrixEnter ==
    /\ editor = "matrix" /\ status = "Editing"
    /\ keys' = <<"CR">>
    /\ UNCHANGED <<config, array_vars>>
    /\ IF current_value # <<>>
       THEN LET t == MatrixTest(current_value)
                v == matrix_validator(current_value)
                f == matrix_format_number(current_value, as_int, as_symbol)
                m == [matrix EXCEPT ![current_row][current_col] = f.text]
                next_empty == find_next_empty(m, current_row, current_col)
                prev_empty == find_prev_empty(m, current_row, current_col)
            IN  IF t = "ValueError"
                THEN /\ validated' = <<>>
                     /\ error_message' = MsgNumber
                     /\ UNCHANGED <<matrix_vars, current_value, status, result>>
                ELSE IF t # NoExc THEN validated' = <<>> /\ Fault(t)
                ELSE /\ validated' = <<current_value>>
                     /\ IF v.exc = "ValueError"
                        THEN /\ error_message' = MsgNumber
                             /\ UNCHANGED <<matrix_vars, current_value, status, result>>
                        ELSE IF v.exc # NoExc THEN Fault(v.exc)
                        ELSE IF ~v.is_valid
                        THEN /\ error_message' = v.error
                             /\ UNCHANGED <<matrix_vars, current_value, status, result>>
                        ELSE IF f.exc # NoExc THEN Fault(f.exc)
                        ELSE /\ matrix' = m
                             /\ current_value' = <<>>
                             /\ error_message' = ""
                             /\ IF next_empty # None
                                THEN /\ current_row' = next_empty[1]
                                     /\ current_col' = next_empty[2]
                                     /\ UNCHANGED <<status, result>>
                                ELSE IF prev_empty # None
                                THEN /\ current_row' = prev_empty[1]
                                     /\ current_col' = prev_empty[2]
                                     /\ UNCHANGED <<status, result>>
                                ELSE /\ status' = "Completed"
                                     /\ result' = "grid"
                                     /\ UNCHANGED <<current_row, current_col>>
       ELSE MatrixEmptyEnter

\* as MatrixBackspace, but the error message is left as it is
MatrixBackspaceMutant ==
    /\ editor = "matrix" /\ status = "Editing"
    /\ keys' = <<"DEL">>
    /\ validated' = <<>>
    /\ UNCHANGED <<config, array_vars, matrix_vars, status, result, error_message>>
    /\ IF current_value # <<>>
       THEN current_value' = DropLast(current_value)
       ELSE UNCHANGED current_value
MatrixBackspace ==
    /\ editor = "matrix" /\ status = "Editing"
    /\ keys' = <<"DEL">>
    /\ validated' = <<>>
    /\ UNCHANGED <<config, array_vars, matrix_vars, status, result>>
    /\ IF current_value # <<>>
       THEN /\ current_value' = DropLast(current_value)
            /\ error_message' = ""
       ELSE UNCHANGED <<current_value, error_message>>

\* an arrow key that is not blocked
MatrixMoveMutant(row, col) ==
    /\ current_row' = row
    /\ current_col' = col
    /\ UNCHANGED <<current_value, error_message>>
MatrixMove(row, col) ==
    /\ current_row' = row
    /\ current_col' = col
    /\ current_value' = <<>>
    /\ error_message' = ""

\* as MatrixEscape, but Down on the last row wraps to the first row
MatrixEscapeMutant(next_char, direction) ==
    /\ editor = "matrix" /\ status = "Editing"
    /\ next_char \in NextChars /\ direction \in Directions
    /\ validated' = <<>>
    /\ UNCHANGED <<config, array_vars, matrix>>
    /\ IF next_char = "["
       THEN /\ keys' = <<"ESC", next_char, direction>>
            /\ UNCHANGED <<status, result>>
            /\ IF direction = "A" /\ current_row > 0
               THEN MatrixMove(current_row - 1, current_col)
               ELSE IF direction = "B"
               THEN MatrixMove((current_row + 1) % rows, current_col)
               ELSE IF direction = "D" /\ current_col > 0
               THEN MatrixMove(current_row, current_col - 1)
               ELSE IF direction = "C" /\ current_col < cols - 1
               THEN MatrixMove(current_row, current_col + 1)
               ELSE UNCHANGED <<current_row, current_col, current_value, error_message>>
       ELSE /\ keys' = <<"ESC", next_char>>
            /\ Cancel
MatrixEscape(next_char, direction) ==
    /\ editor = "matrix" /\ status = "Editing"
    /\ next_char \in NextChars /\ direction \in Directions
    /\ validated' = <<>>
    /\ UNCHANGED <<config, array_vars, matrix>>
    /\ IF next_char = "["
       THEN /\ keys' = <<"ESC", next_char, direction>>
            /\ UNCHANGED <<status, result>>
            /\ IF direction = "A" /\ current_row > 0
               THEN MatrixMove(current_row - 1, current_col)
               ELSE IF direction = "B" /\ current_row < rows - 1
               THEN MatrixMove(current_row + 1, current_col)
               ELSE IF direction = "D" /\ current_col > 0
               THEN MatrixMove(current_row, current_col - 1)
               ELSE IF direction = "C" /\ current_col < cols - 1
               THEN MatrixMove(current_row, current_col + 1)
               ELSE UNCHANGED <<current_row, current_col, current_value, error_message>>
       ELSE /\ keys' = <<"ESC", next_char>>
            /\ Cancel

MatrixPrintable(c) ==
    /\ editor = "matrix" /\ status = "Editing"
    /\ c \in Chars /\ Typable(Append(current_value, c))
    /\ keys' = <<c>>
    /\ validated' = <<>>
    /\ current_value' = AppendChar(current_value, c)
    /\ error_message' = ""
    /\ UNCHANGED <<config, array_vars, matrix_vars, status, result>>

\* a line feed is no Enter here (ord(char) == 13 only) and is not printable
MatrixOther(k) ==
    /\ editor = "matrix" /\ status = "Editing"
    /\ k \in OtherKeys \cup {"LF"}
    /\ keys' = <<k>>
    /\ validated' = <<>>
    /\ UNCHANGED <<config, array_vars, matrix_vars, current_value, error_message,
                   status, result>>

Next ==
    \/ \E k \in {"CR", "LF"} : ArrayEnter(k)
    \/ ArrayBackspace
    \/ \E n \in NextChars, d \in Directions : ArrayEscape(n, d)
    \/ \E c \in Chars : ArrayPrintable(c)
    \/ \E k \in OtherKeys : ArrayOther(k)
    \/ MatrixEnter
    \/ MatrixBackspace
    \/ \E n \in NextChars, d \in Directions : MatrixEscape(n, d)
    \/ \E c \in Chars : MatrixPrintable(c)
    \/ \E k \in OtherKeys \cup {"LF"} : MatrixOther(k)

Spec == Init /\ [][Next]_vars

(***************************************************************************)
(* The typed entry points: what each returns for the session at hand.      *)
(***************************************************************************)
\* the entry points whose session this is
EntryPoints ==
    IF editor = "array"
    THEN {"input_array"} \cup (IF as_int THEN {"input_int_array"} ELSE {"input_float_array"})
    ELSE {"input_matrix"}
         \cup (IF as_int THEN {"input_int_matrix"}
               ELSE IF as_symbol THEN {"input_symbol_matrix"}
               ELSE {"input_float_matrix"})

\* float(val) or int(float(val)) of one cell: the exception it raises, if any
Convert(val, to_int) == IF to_int THEN PyIntFloat(val).exc ELSE PyFloat(val).exc

\* [conv(val) for val in array]
ConvertArray(to_int) ==
    LET bad == {i \in 0..size - 1 : Convert(array[i], to_int) # NoExc}
    IN  IF bad = {} THEN "grid"
        ELSE Convert(array[CHOOSE i \in bad : \A k \in bad : i <= k], to_int)

\* [[conv(val) for val in row] for row in matrix]; iterating None is a TypeError
ConvertMatrix(to_int) ==
    LET bad == {a \in (0..rows - 1) \X (0..cols - 1) :
                   Convert(matrix[a[1]][a[2]], to_int) # NoExc}
    IN  IF result = "None" THEN "TypeError"
        ELSE IF bad = {} THEN "grid"
        ELSE Convert(matrix[FirstCell(bad)[1]][FirstCell(bad)[2]], to_int)

\* what the entry point e returns ("None", "grid") or raises, "pending" while editing
Returns(e) ==
    IF result \notin {"None", "grid"} THEN result
    ELSE IF e \in {"input_array", "input_matrix", "input_symbol_matrix"} THEN result
    ELSE IF e = "input_float_array"
    THEN IF result = "None" THEN "None" ELSE ConvertArray(FALSE)
    ELSE IF e = "input_int_array"
    THEN IF result = "None" THEN "None" ELSE ConvertArray(TRUE)
    ELSE IF e = "input_float_matrix" THEN ConvertMatrix(FALSE)
    ELSE ConvertMatrix(TRUE)

(***************************************************************************)
(* Vocabulary of the properties.                                           *)
(***************************************************************************)
\* the cells of the editor at hand, as a set of positions, and their contents
CellAt(a, m, pos) == IF editor = "array" THEN a[pos[1]] ELSE m[pos[1]][pos[2]]
Positions ==
    IF editor = "array" THEN {<<i>> : i \in 0..size - 1}
    ELSE (0..rows - 1) \X (0..cols - 1)
EveryCellFilled == \A pos \in Positions : CellAt(array, matrix, pos) # <<>>
Cursor == IF editor = "array" THEN <<current_pos>> ELSE <<current_row, current_col>>

\* the keys of the actions of section 4.3
ConfirmKeys == IF editor = "array" THEN {<<"CR">>, <<"LF">>} ELSE {<<"CR">>}
MoveKeys ==
    IF editor = "array" THEN {<<"ESC", "[", d>> : d \in {"C", "D"}}
    ELSE {<<"ESC", "[", d>> : d \in {"A", "B", "C", "D"}}
CancelKeys == {<<"ESC", n>> : n \in NextChars \ {"["}}

\* a step of the loop, taken while editing, that reads the keys of a set
Reads(K) == status = "Editing" /\ keys' \in K

\* the text parses as a number of the base kind
ParsesAsBase(value) ==
    IF as_int THEN PyIntFloat(value).exc = NoExc ELSE PyFloat(value).exc = NoExc

(***************************************************************************)
(* C1.  The session is Completed exactly when every cell holds a committed *)
(* value: while it is Editing some cell is empty, and a grid is never      *)
(* returned with an empty cell.                                            *)
(***************************************************************************)
C1_CompletedIffFilled ==
    /\ status = "Completed" <=> EveryCellFilled
    /\ status = "Editing" => ~EveryCellFilled
    /\ result = "grid" <=> status = "Completed"

\* a 2 x 2 matrix completed after one of its cells was left out and revisited
C1_Witness ==
    /\ editor = "matrix" /\ rows = 2 /\ cols = 2
    /\ status = "Completed" /\ result = "grid"
    /\ Cursor = <<0, 0>>

(***************************************************************************)
(* C2.  A Cancel taken in any Editing state, whatever the buffer, the      *)
(* error, the cursor and the cells are, ends the session Cancelled, yields *)
(* None and modifies no cell.                                              *)
(***************************************************************************)
C2_CancelYieldsNone ==
    [][Reads(CancelKeys) =>
          /\ status' = "Cancelled"
          /\ result' = "None"
          /\ array' = array /\ matrix' = matrix]_vars

\* cancelled with a rejected text pending and a cell already committed
C2_Witness ==
    /\ status = "Cancelled" /\ result = "None"
    /\ current_value # <<>> /\ error_message # ""
    /\ \E pos \in Positions : CellAt(array, matrix, pos) # <<>>

(***************************************************************************)
(* C3.  Every public entry point, the typed wrappers included, returns     *)
(* None when the session ends Cancelled.                                   *)
(***************************************************************************)
C3_WrappersReturnNone ==
    status = "Cancelled" => \A e \in EntryPoints : Returns(e) = "None"

(***************************************************************************)
(* C4.  In integer and real mode with a custom validator, the validator is *)
(* called only with texts that parse as a number of the base kind, and no  *)
(* text that does not parse is committed.                                  *)
(***************************************************************************)
C4_ValidatorOnlyAfterParse ==
    (validator # "None" /\ ~as_symbol) =>
        /\ \A i \in 1..Len(validated) : ParsesAsBase(validated[i])
        /\ \A pos \in Positions :
              CellAt(array, matrix, pos) # <<>> =>
                  PyFloat(CellAt(array, matrix, pos)).exc = NoExc

(***************************************************************************)
(* C5.  A Confirm with a non-empty buffer either commits, or is rejected:  *)
(* a rejection sets lastError to the message, leaves the buffer, the       *)
(* cursor and every cell as they are, and the session stays Editing; it is *)
(* never fatal.                                                            *)
(***************************************************************************)
C5_Committed ==
    /\ current_value' = <<>> /\ error_message' = ""
    /\ status' \in {"Editing", "Completed"}

C5_Rejected ==
    /\ error_message' \in {MsgNumber, MsgSymbol, MsgRange}
    /\ current_value' = current_value
    /\ Cursor' = Cursor
    /\ array' = array /\ matrix' = matrix
    /\ status' = "Editing"

C5_RejectionKeepsState ==
    [][(Reads(ConfirmKeys) /\ current_value # <<>>) => (C5_Committed \/ C5_Rejected)]_vars

(***************************************************************************)
(* C6.  In the matrix editor the cursor after a commit at (r, c) is the    *)
(* first empty cell of one circular row-major scan that starts just after  *)
(* (r, c) and stops before coming back to it, and the session completes    *)
(* exactly when that scan meets no empty cell.  find_next_empty followed   *)
(* by find_prev_empty returns the cell of that scan for every content of   *)
(* the grid and every position.                                            *)
(***************************************************************************)
\* the cell d steps after (r, c) in row-major order, wrapping at the end
CellAfter(r, c, d) ==
    <<((r * cols + c + d) % (rows * cols)) \div cols,
      ((r * cols + c + d) % (rows * cols)) % cols>>

CircularScan(m, r, c) ==
    LET steps == {d \in 1..rows * cols - 1 :
                     m[CellAfter(r, c, d)[1]][CellAfter(r, c, d)[2]] = <<>>}
    IN  IF steps = {} THEN None
        ELSE CellAfter(r, c, CHOOSE d \in steps : \A k \in steps : d <= k)

TwoPhaseSearch(m, r, c) ==
    IF find_next_empty(m, r, c) # None THEN find_next_empty(m, r, c)
    ELSE find_prev_empty(m, r, c)

\* a step that commits the buffer into the cell under the cursor
MatrixCommits ==
    /\ editor = "matrix" /\ Reads(ConfirmKeys) /\ current_value # <<>>
    /\ validated' # <<>> /\ error_message' = "" /\ status' # "Fault"

C6_CommitAdvance ==
    /\ [](editor = "matrix" =>
             \A r \in 0..rows - 1, c \in 0..cols - 1 :
                 TwoPhaseSearch(matrix, r, c) = CircularScan(matrix, r, c))
    /\ [][MatrixCommits =>
             IF CircularScan(matrix', current_row, current_col) = None
             THEN status' = "Completed"
             ELSE /\ status' = "Editing"
                  /\ Cursor' = CircularScan(matrix', current_row, current_col)]_vars

\* after a commit the cursor stands on the empty first cell of a 2 x 2 matrix whose
\* last row is filled: the scan came round from the end of the grid
C6_Witness ==
    /\ editor = "matrix" /\ rows = 2 /\ cols = 2 /\ status = "Editing"
    /\ keys = <<"CR">> /\ validated # <<>> /\ error_message = ""
    /\ Cursor = <<0, 0>> /\ matrix[0][0] = <<>>
    /\ matrix[1][0] # <<>> /\ matrix[1][1] # <<>>

(***************************************************************************)
(* C7.  As claimed: every Move(d), a blocked one included, leaves the edit *)
(* buffer and lastError empty.                                             *)
(***************************************************************************)
C7_MoveClears ==
    [][Reads(MoveKeys) => (current_value' = <<>> /\ error_message' = "")]_vars

(***************************************************************************)
(* C7 as amended.  A Move(d) that moves the cursor leaves the edit buffer  *)
(* and lastError empty; a Move(d) blocked at the edge of the grid changes  *)
(* neither the cursor nor the buffer nor lastError.  No Move changes a     *)
(* cell.                                                                   *)
(***************************************************************************)
C7_MoveClearsWhenMoving ==
    [][Reads(MoveKeys) =>
          /\ array' = array /\ matrix' = matrix
          /\ IF Cursor' # Cursor
             THEN current_value' = <<>> /\ error_message' = ""
             ELSE current_value' = current_value /\ error_message' = error_message]_vars

\* Left was pressed on the first cell of the array with a rejected text pending
C7_Witness ==
    /\ editor = "array" /\ status = "Editing"
    /\ keys = <<"ESC", "[", "D">> /\ Cursor = <<0>>
    /\ current_value # <<>> /\ error_message # ""

(***************************************************************************)
(* C8.  As claimed: in the matrix editor a Confirm with an empty buffer    *)
(* moves the cursor one cell forward when a cell follows.                  *)
(***************************************************************************)
C8_EmptyConfirmAdvances ==
    [][(editor = "matrix" /\ Reads(ConfirmKeys) /\ current_value = <<>>
        /\ Cursor # <<rows - 1, cols - 1>>)
       => Cursor' = CellAfter(current_row, current_col, 1)]_vars

(***************************************************************************)
(* C8 as amended.  In the matrix editor a Confirm with an empty buffer     *)
(* changes nothing: the cursor stays where it is, nothing is validated and *)
(* nothing is committed.                                                   *)
(***************************************************************************)
C8_EmptyConfirmStays ==
    [][(editor = "matrix" /\ Reads(ConfirmKeys) /\ current_value = <<>>) =>
          /\ Cursor' = Cursor
          /\ matrix' = matrix
          /\ validated' = <<>>
          /\ current_value' = <<>> /\ error_message' = error_message
          /\ status' = "Editing"]_vars

\* Enter was pressed on an empty buffer while a cell after the cursor was empty
C8_Witness ==
    /\ editor = "matrix" /\ status = "Editing"
    /\ keys = <<"CR">> /\ validated = <<>> /\ current_value = <<>>
    /\ Cursor = <<0, 0>> /\ cols = 2 /\ matrix[0][1] = <<>>

(***************************************************************************)
(* C9.  A Confirm with an empty buffer changes no cell and not lastError,  *)
(* and calls no validator: only the cursor may change.                     *)
(***************************************************************************)
C9_EmptyConfirmFrame ==
    [][(Reads(ConfirmKeys) /\ current_value = <<>>) =>
          /\ array' = array /\ matrix' = matrix
          /\ error_message' = error_message
          /\ current_value' = <<>>
          /\ validated' = <<>>
          /\ status' = "Editing" /\ result' = result]_vars

\* Enter on an empty buffer has moved the array cursor past an empty cell
C9_Witness ==
    /\ editor = "array" /\ status = "Editing"
    /\ keys \in ConfirmKeys /\ validated = <<>> /\ current_value = <<>>
    /\ current_pos = 1 /\ array[0] = <<>>

(***************************************************************************)
(* C10.  The stack law of the edit buffer, step by step: AppendChar(c)     *)
(* puts c at the end of the buffer, DeleteLast removes its last character, *)
(* and DeleteLast on an empty buffer leaves it empty; so after any run of  *)
(* the two from an empty buffer the buffer is what a stack would hold.     *)
(***************************************************************************)
StackPush(s, c) == s \o <<c>>
StackPop(s) == IF s = <<>> THEN <<>> ELSE [i \in 1..Len(s) - 1 |-> s[i]]

C10_BufferIsStack ==
    [][/\ \A c \in Chars : Reads({<<c>>}) => current_value' = StackPush(current_value, c)
       /\ Reads({<<"DEL">>}) => current_value' = StackPop(current_value)]_vars

\* "inf" was typed and its last character deleted
C10_Witness ==
    /\ status = "Editing" /\ keys = <<"DEL">>
    /\ current_value = <<"i", "n">>

(***************************************************************************)
(* C11.  Cells are filled monotonically: a cell that holds a committed     *)
(* value holds a non-empty value after every step, and a cell changes only *)
(* in a step that is a successful Confirm of a non-empty buffer on the     *)
(* cell under the cursor.                                                  *)
(***************************************************************************)
C11_CellsMonotone ==
    [][\A pos \in Positions :
          /\ CellAt(array, matrix, pos) # <<>> => CellAt(array', matrix', pos) # <<>>
          /\ CellAt(array', matrix', pos) # CellAt(array, matrix, pos) =>
                 /\ Reads(ConfirmKeys) /\ pos = Cursor
                 /\ current_value # <<>> /\ validated' = <<current_value>>
                 /\ error_message' = "" /\ status' # "Fault"]_vars

\* a commit into cell 0 of an array whose cell 1 was filled before it and still is
C11_Witness ==
    /\ editor = "array" /\ size = 3 /\ status = "Editing"
    /\ keys \in ConfirmKeys /\ validated # <<>> /\ error_message = ""
    /\ current_pos = 1
    /\ array[0] # <<>> /\ array[1] # <<>> /\ array[2] = <<>>

(***************************************************************************)
(* format_number on its own, in real mode: a text is formatted, and the    *)
(* text that came back is formatted again.  The editor at hand says which  *)
(* file's format_number is called; the first two cells of its grid (an     *)
(* array of 2, a matrix of 1 x 2) hold the two texts returned.             *)
(***************************************************************************)
\* the longest text handed to format_number
MaxText == 6
\* its characters: digits, the point and the exponent mark
FormatChars == {"0", "1", "2", ".", "e"}
FormatTexts == UNION {[1..n -> FormatChars] : n \in 1..MaxText}

\* format_number(value, as_int) or format_number(value, as_int, as_symbol)
format_number(value) ==
    IF editor = "array" THEN array_format_number(value, as_int)
    ELSE matrix_format_number(value, as_int, as_symbol)

FormatCell(i) == IF editor = "array" THEN array[i] ELSE matrix[0][i]

FormatStore(i, text) ==
    IF editor = "array"
    THEN array' = [array EXCEPT ![i] = text] /\ UNCHANGED matrix
    ELSE matrix' = [matrix EXCEPT ![0][i] = text] /\ UNCHANGED array

FormatInit ==
    /\ editor \in Editors
    /\ validator = "None"
    /\ as_int = FALSE
    /\ as_symbol = FALSE
    /\ size = IF editor = "array" THEN 2 ELSE 0
    /\ rows = IF editor = "array" THEN 0 ELSE 1
    /\ cols = IF editor = "array" THEN 0 ELSE 2
    /\ array = [i \in 0..size - 1 |-> <<>>]
    /\ current_pos = 0
    /\ matrix = [i \in 0..rows - 1 |-> [j \in 0..cols - 1 |-> <<>>]]
    /\ current_row = 0
    /\ current_col = 0
    /\ current_value \in FormatTexts
    /\ error_message = ""
    /\ status = "Editing"
    /\ result = "pending"
    /\ keys = <<>>
    /\ validated = <<>>

\* format_number(x)
FormatFirst ==
    /\ FormatCell(0) = <<>>
    /\ format_number(current_value).exc = NoExc
    /\ FormatStore(0, format_number(current_value).text)
    /\ UNCHANGED <<config, current_pos, current_row, current_col, current_value,
                   error_message, status, result, keys, validated>>

\* format_number(format_number(x))
FormatAgain ==
    /\ FormatCell(0) # <<>> /\ FormatCell(1) = <<>>
    /\ format_number(FormatCell(0)).exc = NoExc
    /\ FormatStore(1, format_number(FormatCell(0)).text)
    /\ UNCHANGED <<config, current_pos, current_row, current_col, current_value,
                   error_message, status, result, keys, validated>>

FormatNext == FormatFirst \/ FormatAgain

FormatSpec == FormatInit /\ [][FormatNext]_vars

(***************************************************************************)
(* C12.  Real-number formatting is idempotent: for every text x that       *)
(* parses as a real number, format_number(format_number(x)) is             *)
(* format_number(x).                                                       *)
(***************************************************************************)
C12_FormatIdempotent ==
    (PyFloat(current_value).exc = NoExc /\ FormatCell(1) # <<>>) =>
        FormatCell(1) = FormatCell(0)

(***************************************************************************)
(* C13.  As claimed: every Escape that is not followed by the bytes of an  *)
(* arrow sequence of the editor at hand is a Cancel, ESC [ followed by a   *)
(* byte that is no direction code of the editor included.                  *)
(***************************************************************************)
\* a pass of the loop that read ESC first
ReadsEscape == status = "Editing" /\ keys' # <<>> /\ keys'[1] = "ESC"

C13_EscapeCancels ==
    [][(ReadsEscape /\ keys' \notin MoveKeys) => status' = "Cancelled"]_vars

(***************************************************************************)
(* C13 as amended.  An Escape followed by a byte other than "[" is a       *)
(* Cancel, and nothing else is.  An Escape followed by "[" and a third     *)
(* byte never cancels: when that byte is no direction code of the editor   *)
(* (for the array editor anything but Left and Right) the three bytes are  *)
(* ignored and the cursor, the cells, the buffer and lastError stay as     *)
(* they are.                                                               *)
(***************************************************************************)
C13_OnlyBareEscapeCancels ==
    [][/\ ReadsEscape =>
            IF keys' \in CancelKeys
            THEN status' = "Cancelled" /\ result' = "None"
            ELSE /\ status' = "Editing"
                 /\ keys' \notin MoveKeys =>
                        /\ Cursor' = Cursor
                        /\ array' = array /\ matrix' = matrix
                        /\ current_value' = current_value
                        /\ error_message' = error_message
       /\ (status = "Editing" /\ status' = "Cancelled") => keys' \in CancelKeys]_vars

\* ESC [ A (Up) was read by the array editor with a rejected text pending
C13_Witness ==
    /\ editor = "array" /\ status = "Editing"
    /\ keys = <<"ESC", "[", "A">>
    /\ current_value # <<>> /\ error_message # ""

(***************************************************************************)
(* C14.  The cursor is inside the grid in every reachable state, and a     *)
(* Move(d) puts it on the neighbouring cell in direction d when there is   *)
(* one (one coordinate changes, by one) and leaves it where it is at the   *)
(* edge: it never wraps around.                                            *)
(***************************************************************************)
\* the cell next to pos in direction d, inside the grid or not
Neighbour(pos, d) ==
    IF editor = "array"
    THEN <<pos[1] + (IF d = "C" THEN 1 ELSE -1)>>
    ELSE CASE d = "A" -> <<pos[1] - 1, pos[2]>>
           [] d = "B" -> <<pos[1] + 1, pos[2]>>
           [] d = "D" -> <<pos[1], pos[2] - 1>>
           [] d = "C" -> <<pos[1], pos[2] + 1>>

C14_CursorStaysInGrid ==
    /\ [](Cursor \in Positions)
    /\ [][\A d \in {"A", "B", "C", "D"} :
             (<<"ESC", "[", d>> \in MoveKeys /\ Reads({<<"ESC", "[", d>>})) =>
                 Cursor' = IF Neighbour(Cursor, d) \in Positions
                           THEN Neighbour(Cursor, d) ELSE Cursor]_vars

\* Down was pressed on the last row of a 2 x 2 matrix: the pending text shows that
\* the cursor did not move
C14_Witness ==
    /\ editor = "matrix" /\ rows = 2 /\ cols = 2 /\ status = "Editing"
    /\ keys = <<"ESC", "[", "B">> /\ Cursor = <<1, 1>>
    /\ current_value # <<>>

(***************************************************************************)
(* C15.  In the array editor a successful commit at index i puts the       *)
(* cursor on i + 1 when i < size - 1, filled or not, and leaves it on i    *)
(* when i = size - 1, even with empty cells to the left: the cursor never  *)
(* goes back and never skips a cell.                                       *)
(***************************************************************************)
\* a step of the array editor that commits the buffer into the cell under the cursor
ArrayCommits ==
    /\ editor = "array" /\ Reads(ConfirmKeys) /\ current_value # <<>>
    /\ validated' # <<>> /\ error_message' = "" /\ status' # "Fault"

C15_LinearAdvance ==
    [][ArrayCommits =>
          /\ array'[current_pos] # <<>>
          /\ current_pos' = IF current_pos < size - 1 THEN current_pos + 1
                            ELSE current_pos]_vars

\* a commit into the last cell of an array of 3 whose other cells are empty: the
\* cursor stays on the last cell
C15_Witness ==
    /\ editor = "array" /\ size = 3 /\ status = "Editing"
    /\ keys \in ConfirmKeys /\ validated # <<>> /\ error_message = ""
    /\ current_pos = 2
    /\ array[0] = <<>> /\ array[1] = <<>> /\ array[2] # <<>>

\* a commit into cell 0 has put the cursor on cell 1, which was filled before
C15_WitnessOntoFilled ==
    /\ editor = "array" /\ size = 2 /\ status = "Completed"
    /\ keys \in ConfirmKeys /\ validated = <<<<"i", "n", "f">>>>
    /\ current_pos = 1 /\ array[0] = <<"i", "n", "f">> /\ array[1] = <<"1">>

(***************************************************************************)
(* C16.  In every step in which the cursor changes (an arrow key, the      *)
(* advance after a commit, the advance on Confirm with an empty buffer)    *)
(* the edit buffer is empty after the step: no pending text is carried to  *)
(* another cell.                                                           *)
(***************************************************************************)
C16_BufferEmptyWhenCursorMoves ==
    [][Cursor' # Cursor => current_value' = <<>>]_vars

\* the text "inf" was pending on cell 0 of an array of 3 and its commit has moved
\* the cursor to cell 1, with the buffer empty
C16_Witness ==
    /\ editor = "array" /\ size = 3 /\ status = "Editing"
    /\ keys \in ConfirmKeys /\ validated = <<<<"i", "n", "f">>>>
    /\ array[0] = <<"i", "n", "f">> /\ array[1] = <<>> /\ array[2] = <<>>
    /\ current_pos = 1 /\ current_value = <<>>

(***************************************************************************)
(* C17.  A run from the initial state made only of typing and of accepted  *)
(* Confirms fills the cells in index order (row-major in the matrix): the  *)
(* cells before the cursor are the filled ones, the cursor stands on an    *)
(* empty cell before every commit, each commit fills one more cell, and    *)
(* the session is Completed exactly by the commit that fills the last one. *)
(* In the matrix editor, from any Editing state, a commit leaves the       *)
(* cursor on an empty cell or completes the session, and a commit into an  *)
(* empty cell leaves one empty cell less: repeated commits complete it.    *)
(***************************************************************************)
\* the place of a cell in index order
Index(pos) == IF editor = "array" THEN pos[1] ELSE pos[1] * cols + pos[2]

FilledCells(a, m) == {pos \in Positions : CellAt(a, m, pos) # <<>>}

\* the filled cells are the cells before the cursor
InOrder(a, m, cur) ==
    \A pos \in Positions : CellAt(a, m, pos) # <<>> <=> Index(pos) < Index(cur)

\* a pass of the loop that appends a typed character
Types == \E c \in Chars : Reads({<<c>>})

Commits == ArrayCommits \/ MatrixCommits

C17_FillsInOrder ==
    /\ [](keys = <<>> => (status = "Editing" /\ InOrder(array, matrix, Cursor)))
    /\ [][(InOrder(array, matrix, Cursor) /\ Types) =>
             (status' = "Editing" /\ InOrder(array', matrix', Cursor'))]_vars
    /\ [][(InOrder(array, matrix, Cursor) /\ Commits) =>
             /\ FilledCells(array', matrix') = FilledCells(array, matrix) \cup {Cursor}
             /\ IF Cardinality(FilledCells(array', matrix')) = Cardinality(Positions)
                THEN status' = "Completed"
                ELSE status' = "Editing" /\ InOrder(array', matrix', Cursor')]_vars
    /\ [][MatrixCommits =>
             /\ status' = "Completed" \/
                   (status' = "Editing" /\ CellAt(array', matrix', Cursor') = <<>>)
             /\ CellAt(array, matrix, Cursor) = <<>> =>
                   Cardinality(FilledCells(array', matrix'))
                       = Cardinality(FilledCells(array, matrix)) + 1]_vars

\* two commits into a fresh 2 x 2 matrix: the first row is filled, the cursor stands
\* on the first cell of the second row
C17_Witness ==
    /\ editor = "matrix" /\ rows = 2 /\ cols = 2 /\ status = "Editing"
    /\ keys = <<"CR">> /\ validated # <<>> /\ error_message = ""
    /\ Cursor = <<1, 0>> /\ InOrder(array, matrix, Cursor)

(***************************************************************************)
(* C18.  In the matrix editor in symbol mode with the default validator a  *)
(* Confirm is accepted exactly when the buffer holds one character, which  *)
(* is stored as typed; a longer buffer is rejected with the message of the *)
(* single character and nothing is committed.  So every committed cell     *)
(* holds exactly one character in every reachable state.                   *)
(***************************************************************************)
SymbolMode == editor = "matrix" /\ as_symbol /\ validator = "None"

C18_SymbolCells ==
    /\ [](SymbolMode =>
             \A pos \in Positions :
                 CellAt(array, matrix, pos) = <<>> \/ Len(CellAt(array, matrix, pos)) = 1)
    /\ [][(SymbolMode /\ Reads(ConfirmKeys) /\ current_value # <<>>) =>
             IF Len(current_value) = 1
             THEN /\ matrix' = [matrix EXCEPT ![current_row][current_col] = current_value]
                  /\ current_value' = <<>> /\ error_message' = ""
                  /\ status' \in {"Editing", "Completed"}
             ELSE /\ error_message' = MsgSymbol
                  /\ matrix' = matrix /\ Cursor' = Cursor
                  /\ current_value' = current_value
                  /\ status' = "Editing"]_vars

\* the letter i is committed as typed, and the Confirm of the text "1." is rejected
C18_Witness ==
    /\ SymbolMode /\ status = "Editing"
    /\ keys = <<"CR">> /\ current_value = <<"1", ".">> /\ error_message = MsgSymbol
    /\ matrix[0][0] = <<"i">>

(***************************************************************************)
(* C19.  As claimed: a DeleteLast on a non-empty buffer removes the last   *)
(* character of the buffer and changes nothing else, lastError included.   *)
(***************************************************************************)
C19_DeleteLastFrame ==
    [][(Reads({<<"DEL">>}) /\ current_value # <<>>) =>
          /\ current_value' = DropLast(current_value)
          /\ Cursor' = Cursor
          /\ array' = array /\ matrix' = matrix
          /\ error_message' = error_message]_vars

(***************************************************************************)
(* C19 as amended.  A DeleteLast on a non-empty buffer removes the last    *)
(* character of the buffer and clears lastError, as AppendChar does; the   *)
(* cursor and every cell stay as they are.  On an empty buffer it changes  *)
(* nothing.                                                                *)
(***************************************************************************)
C19_DeleteLastClearsError ==
    [][Reads({<<"DEL">>}) =>
          /\ Cursor' = Cursor
          /\ array' = array /\ matrix' = matrix
          /\ status' = "Editing"
          /\ IF current_value # <<>>
             THEN current_value' = DropLast(current_value) /\ error_message' = ""
             ELSE current_value' = <<>> /\ error_message' = error_message]_vars

\* of the text "in" typed next to a committed cell, the last character was deleted
C19_Witness ==
    /\ editor = "array" /\ size = 2 /\ status = "Editing"
    /\ keys = <<"DEL">> /\ current_value = <<"i">> /\ error_message = ""
    /\ current_pos = 1 /\ array[0] # <<>>

(***************************************************************************)
(* C20.  A non-empty lastError goes with a non-empty buffer, and that      *)
(* buffer is the text whose Confirm was rejected last: lastError becomes   *)
(* or stays non-empty only in a step that leaves the buffer as it is, and  *)
(* that step is either a rejected Confirm of the buffer or a step that     *)
(* leaves lastError as it is.  With an empty buffer lastError is empty.    *)
(***************************************************************************)
\* a Confirm of a non-empty buffer that commits nothing and leaves the session Editing
RejectedConfirm ==
    /\ Reads(ConfirmKeys) /\ current_value # <<>>
    /\ array' = array /\ matrix' = matrix /\ Cursor' = Cursor
    /\ status' = "Editing"

C20_ErrorNeverStale ==
    /\ [](error_message # "" => current_value # <<>>)
    /\ [][error_message' # "" =>
             /\ current_value' = current_value
             /\ RejectedConfirm \/ error_message' = error_message]_vars

\* the rejected text "i" and its error are still there after a key that is ignored
C20_Witness ==
    /\ status = "Editing" /\ keys = <<"TAB">>
    /\ current_value = <<"i">> /\ error_message = MsgNumber

=============================================================================
